---- MODULE Spec2Model ----
(***************************************************************************)
(* The predict-stock edge function (supabase/functions/predict-stock/      *)
(* index.ts) as a state machine: one prediction request from its arrival   *)
(* to its response, with the price-history provider, the macro-series      *)
(* provider and the prediction log as its environment.                     *)
(*                                                                         *)
(* Numbers.  A JavaScript number is held as a fixed-point integer with     *)
(* Scale units to 1 (three decimals): prices, volumes, z-scores, macro     *)
(* values and weights.  Log returns and the volatility are held in         *)
(* thousandths (x 10^3) as such fixed-point numbers, so with six decimals. *)
(* A product of two numbers is rescaled ((a * b) \div Scale), a quotient   *)
(* is a * Scale \div b, and \div rounds down.  TLC's integers have 32      *)
(* bits, so the price series of the model are those of a stock quoted      *)
(* between 1 and 4: every intermediate value then fits.  The values a      *)
(* division by zero produces (NaN, Infinity, -Infinity) are kept apart     *)
(* from the finite numbers: see JsDiv.                                     *)
(* Arrays are functions on 0 .. n-1, as the source indexes them; a feature *)
(* vector is a tuple, so the source's column j is the tuple's j + 1.       *)
(***************************************************************************)
EXTENDS Integers, Sequences, FiniteSets, TLC

\* ------------------------------------------------------------------------
\* Fixed-point arithmetic
\* ------------------------------------------------------------------------
Scale == 10 * 10 * 10
LogOne == Scale * Scale

Length(a) == Cardinality(DOMAIN a)

EmptyArray == [i \in {} |-> 0]

\* The array that pushing the elements of seq in turn builds.
ArrayOf(seq) == [i \in 0..(Len(seq) - 1) |-> seq[i + 1]]

Abs(x) == IF x < 0 THEN -x ELSE x

Sign(x) == IF x > 0 THEN 1 ELSE IF x < 0 THEN -1 ELSE 0

Max(a, b) == IF a >= b THEN a ELSE b

Min(a, b) == IF a <= b THEN a ELSE b

FMul(a, b) == (a * b) \div Scale

\* a * Scale \div b for b > 0, computed without the overflow of a * Scale.
FDiv(a, b) == (a \div b) * Scale + ((a % b) * Scale) \div b

\* a[lo] + ... + a[hi], summed by halves to keep the recursion shallow.
RECURSIVE SumRange(_, _, _)
SumRange(a, lo, hi) ==
    IF lo > hi THEN 0
    ELSE IF lo = hi THEN a[lo]
    ELSE LET mid == (lo + hi) \div 2
         IN  SumRange(a, lo, mid) + SumRange(a, mid + 1, hi)

RECURSIVE ISqrtIn(_, _, _)
ISqrtIn(n, lo, hi) ==
    IF lo >= hi THEN lo
    ELSE LET mid == (lo + hi + 1) \div 2
         IN  IF mid * mid <= n THEN ISqrtIn(n, mid, hi) ELSE ISqrtIn(n, lo, mid - 1)

ISqrt(n) == ISqrtIn(n, 0, 46340)

\* Math.sqrt on a fixed-point number: sqrt(v / Scale) * Scale, rounded down.
FSqrt(v) == ISqrt(v * Scale)

\* Math.log(a / b) in thousandths, as a fixed-point number (so x 10^6):
\* ln(a/b) = 2 atanh(z) = 2 (z + z^3/3 + ...), z = (a - b) / (a + b).
Ln(a, b) ==
    LET t  == ((a - b) * LogOne) \div (a + b)
        hi == t \div Scale
        lo == t % Scale
        \* (t * t) \div LogOne, computed without the overflow of t * t
        z2 == hi * hi + (2 * hi * lo * Scale + lo * lo) \div LogOne
        z3 == (z2 * t) \div LogOne
    IN  2 * (t + z3 \div 3)

\* ------------------------------------------------------------------------
\* Feature transforms (index.ts 57-120).  A missing entry (null) is <<>>,
\* a defined one is <<v>>.
\* ------------------------------------------------------------------------
Null == <<>>

Some(v) == <<v>>

SmaPeriod == 20
VolPeriod == 20
ShortMomentum == 5
LongMomentum == 10
ZScorePeriod == 60

calculateSMA(data, period) ==
    [i \in DOMAIN data |->
        IF i < period - 1 THEN Null
        ELSE Some(SumRange(data, i - period + 1, i) \div period)]

\* A faulty variant of calculateLogReturn: the entry at index period is
\* missing too.
calculateLogReturnLate(prices, period) ==
    [i \in DOMAIN prices |->
        IF i <= period THEN Null
        ELSE Some(Ln(prices[i], prices[i - period]))]

calculateLogReturn(prices, period) ==
    [i \in DOMAIN prices |->
        IF i < period THEN Null
        ELSE Some(Ln(prices[i], prices[i - period]))]

\* The population variance of values[lo .. hi] about mean.
Variance(values, lo, hi, mean) ==
    SumRange([j \in lo..hi |-> FMul(values[j] - mean, values[j] - mean)], lo, hi)
        \div (hi - lo + 1)

WindowMean(values, lo, hi) == SumRange(values, lo, hi) \div (hi - lo + 1)

\* (x - mean) / (Math.sqrt(variance) || 1)
ZScore(x, mean, root) == FDiv(x - mean, IF root = 0 THEN Scale ELSE root)

ZScoreAbout(values, lo, hi, mean) ==
    ZScore(values[hi], mean, FSqrt(Variance(values, lo, hi, mean)))

calculateRollingZScore(data, period) ==
    [i \in DOMAIN data |->
        IF i < period - 1 THEN Null
        ELSE Some(ZScoreAbout(data, i - period + 1, i,
                              WindowMean(data, i - period + 1, i)))]

StdAbout(values, lo, hi, mean) == FSqrt(Variance(values, lo, hi, mean))

LogReturns(prices) == [j \in DOMAIN prices \ {0} |-> Ln(prices[j], prices[j - 1])]

calculateVolatility(prices, period) ==
    [i \in DOMAIN prices |->
        IF i < period THEN Null
        ELSE Some(StdAbout(LogReturns(prices), i - period + 1, i,
                           WindowMean(LogReturns(prices), i - period + 1, i)))]

\* ------------------------------------------------------------------------
\* JavaScript numbers that need not be finite: <<"num", v>>, NaN, Infinity.
\* ------------------------------------------------------------------------
Num(v) == <<"num", v>>

NaN == <<"NaN">>

PosInf == <<"Infinity">>

NegInf == <<"-Infinity">>

IsNum(x) == x[1] = "num"

\* a / b for finite a and b >= 0: a number, or what a zero divisor gives.
JsDiv(a, b) ==
    IF b # 0 THEN Num(FDiv(a, b))
    ELSE IF a = 0 THEN NaN
    ELSE IF a > 0 THEN PosInf ELSE NegInf

\* 1 - x
JsOneMinus(x) ==
    IF IsNum(x) THEN Num(Scale - x[2])
    ELSE IF x = PosInf THEN NegInf
    ELSE IF x = NegInf THEN PosInf ELSE NaN

\* A faulty variant of the floor below: the value is left as it is.
JsNoFloor(x) == x

\* Math.max(0, x): NaN if x is NaN.
JsMaxZero(x) ==
    IF IsNum(x) THEN Num(Max(0, x[2]))
    ELSE IF x = PosInf THEN PosInf
    ELSE IF x = NegInf THEN Num(0) ELSE NaN

\* x * 100
JsTimesHundred(x) == IF IsNum(x) THEN Num(x[2] * 100) ELSE x

\* ------------------------------------------------------------------------
\* Strings are sequences of one-character strings (formatTicker reads them
\* character by character).
\* ------------------------------------------------------------------------
LowerCase == <<"a", "b", "c", "d", "e", "f", "g", "h", "i", "j", "k", "l", "m",
               "n", "o", "p", "q", "r", "s", "t", "u", "v", "w", "x", "y", "z">>

UpperCase == <<"A", "B", "C", "D", "E", "F", "G", "H", "I", "J", "K", "L", "M",
               "N", "O", "P", "Q", "R", "S", "T", "U", "V", "W", "X", "Y", "Z">>

toUpperCase(str) ==
    [k \in 1..Len(str) |->
        IF \E n \in 1..26 : LowerCase[n] = str[k]
        THEN UpperCase[CHOOSE n \in 1..26 : LowerCase[n] = str[k]]
        ELSE str[k]]

RECURSIVE trimStart(_)
trimStart(str) ==
    IF str # <<>> /\ Head(str) = " " THEN trimStart(Tail(str)) ELSE str

RECURSIVE trimEnd(_)
trimEnd(str) ==
    IF str # <<>> /\ str[Len(str)] = " "
    THEN trimEnd(SubSeq(str, 1, Len(str) - 1)) ELSE str

trim(str) == trimEnd(trimStart(str))

endsWith(str, suffix) ==
    /\ Len(str) >= Len(suffix)
    /\ SubSeq(str, Len(str) - Len(suffix) + 1, Len(str)) = suffix

DotTO == <<".", "T", "O">>

\* A faulty variant of formatTicker: the suffix is appended to every Toronto
\* ticker, whether it is there already or not.
formatTickerAlwaysSuffixed(ticker, market) ==
    LET clean == trim(toUpperCase(ticker))
    IN  IF market = "TSX" THEN clean \o DotTO ELSE clean

\* The edge function's copy (index.ts 49-55).
formatTicker(ticker, market) ==
    LET clean == trim(toUpperCase(ticker))
    IN  IF market = "TSX"
        THEN IF endsWith(clean, DotTO) THEN clean ELSE clean \o DotTO
        ELSE clean

\* The client's copy (lib/stockApi, part_000 7-13).
formatTickerClient(ticker, market) ==
    LET cleanTicker == trim(toUpperCase(ticker))
    IN  IF market = "TSX"
        THEN IF endsWith(cleanTicker, DotTO) THEN cleanTicker ELSE cleanTicker \o DotTO
        ELSE cleanTicker

\* ------------------------------------------------------------------------
\* The environment: the clock, the requests, what the two providers return.
\* ------------------------------------------------------------------------
\* Bounds of the model.
MaxBars == 215
TicksPerDay == 2

\* Program constants.
MinBars == 200
FirstRowIndex == 60
MinTrainingRows == 30
NumFeatures == 8

\* The server's calendar day; the clock reads Today * TicksPerDay + tick.
Today == 2 * MaxBars + 100

\* target_date: missing (undefined, null or ""), a string that is no date,
\* or the calendar day d (parsed as midnight UTC of that day).
NoDate == <<"missing">>

BadDate == <<"invalid">>

Day(d) == <<"date", d>>

TargetDates ==
    {NoDate, BadDate, Day(Today - 1), Day(Today), Day(Today + 1),
     Day(Today + 10), Day(Today + 130)}

Markets == {"", "NASDAQ", "TSX"}

Tickers == {<<>>, <<"r", "y">>, <<" ", "R", "y", ".", "t", "o">>}

\* The target dates next to the request day: for these the time of day at
\* which the request arrives is varied.
NearDates == {Day(Today - 1), Day(Today), Day(Today + 1)}

\* The requests, with the tick of the day at which each arrives.
Arrivals ==
    {<<[ticker |-> t, market |-> "NASDAQ", target_date |-> Day(Today + 10)], 0>> :
        t \in Tickers}
    \cup
    {<<[ticker |-> <<"r", "y">>, market |-> m, target_date |-> Day(Today + 10)], 0>> :
        m \in Markets}
    \cup
    {<<[ticker |-> <<"r", "y">>, market |-> "TSX", target_date |-> d], 0>> :
        d \in TargetDates}
    \cup
    {<<[ticker |-> <<"r", "y">>, market |-> "TSX", target_date |-> d], TicksPerDay - 1>> :
        d \in NearDates}

\* Price series of the model.  open, high and low are fetched and never read.
\* The "fine" series is quoted to the tenth of a cent (1.005, 1.015, ...).
Close(shape, i) ==
    IF shape = "flat" THEN 2 * Scale
    ELSE IF shape = "fine" THEN Scale + (Scale \div 100) * i + Scale \div 200
    ELSE Scale + (Scale \div 100) * i

Volume(shape, i) ==
    IF shape = "flat" THEN Scale * Scale ELSE Scale * Scale + Scale * ((i * 37) % 11)

\* Bar i of n is dated so that the last bar is today's; the "weekdays"
\* calendar has no bar on two days out of seven.
DayOffset(cal, i) == IF cal = "weekdays" THEN i + 2 * (i \div 5) ELSE i

BarDate(cal, n, i) == Today - DayOffset(cal, n - 1) + DayOffset(cal, i)

Bars(shape, cal, n) ==
    [i \in 0..(n - 1) |->
        [date |-> BarDate(cal, n, i), close |-> Close(shape, i),
         volume |-> Volume(shape, i)]]

StockSeries ==
    {<<"flat", "daily", MinBars - 1>>, <<"flat", "daily", MinBars>>,
     <<"trend", "daily", MinBars>>, <<"trend", "weekdays", MaxBars>>,
     <<"fine", "daily", MinBars>>}

\* FRED observations as the payload lists them: [date, value], the value a
\* number or NaN (parseFloat of the "." FRED writes for a missing value).
Obs(d, v) == [date |-> d, value |-> v]

EarlyDay == Today - 2 * MaxBars
MidDay == Today - 70
LateDay == Today - 20
FutureDay == Today + 5

MacroPayloads ==
    { [fedFunds |-> <<>>, cpi |-> <<>>],
      [fedFunds |-> <<Obs(EarlyDay, Num(5250))>>,
       cpi      |-> <<Obs(EarlyDay, Num(310 * Scale))>>],
      [fedFunds |-> <<Obs(MidDay, Num(5000)), Obs(EarlyDay, Num(5250)),
                      Obs(LateDay, Num(4750))>>,
       cpi      |-> <<Obs(FutureDay, Num(320 * Scale)), Obs(MidDay, Num(312 * Scale)),
                      Obs(EarlyDay, Num(310 * Scale))>>],
      [fedFunds |-> <<Obs(MidDay, Num(5000))>>,
       cpi      |-> <<Obs(LateDay, NaN), Obs(EarlyDay, Num(310 * Scale))>>] }

\* ------------------------------------------------------------------------
\* State
\* ------------------------------------------------------------------------
VARIABLES
    pc,               \* the request's state (spec 4.5)
    req,              \* the request body: ticker, market, target_date
    now,              \* the server clock when the request arrives
    formattedTicker,
    daysAhead,        \* a JavaScript number: <<"num", n>> or NaN
    stockFetch,       \* fetchStockData's promise: idle, pending, resolved, rejected
    macroFetch,       \* fetchMacroData's promise: idle, pending, resolved
    stockResult,      \* fetchStockData's outcome: the bars, or the error's message
    macroResult,      \* what fetchMacroData resolved to
    macroReply,       \* what the FRED provider did: none (yet), unreachable,
                      \* malformed (a payload without observations), ok
    stockData,
    macroData,
    processedData,
    X,
    y,
    norm,             \* normalizeData's result: normalized, means, stds
    coefficients,     \* the fitted weights
    rawPrediction,    \* prediction as regression.predict returns it
    prediction,       \* prediction once clamped
    bounds,           \* calculateBounds' result: lower, upper
    featureImportance,
    rSquared,
    hitRate,
    log,              \* the stock_predictions table: the rows inserted
    response,         \* the HTTP response, [status |-> 0] while there is none
    parked,           \* the request waiting at an await while another runs
    teamStats,        \* a call of getTeamsYearStats (src/lib/api.js)
    form              \* the StockPredictor component: its state and its request

vars ==
    <<pc, req, now, formattedTicker, daysAhead, stockFetch, macroFetch, stockResult,
      macroResult, macroReply, stockData, macroData, processedData, X, y, norm, coefficients,
      rawPrediction, prediction, bounds, featureImportance, rSquared, hitRate, log,
      response, parked, teamStats, form>>

\* The variables of the browser's side: the statistics call and the form.
clientVars == <<teamStats, form>>

fetchVars == <<stockFetch, macroFetch, stockResult, macroResult, macroReply>>

dataVars == <<stockData, macroData>>

modelVars == <<X, y, norm, coefficients>>

resultVars == <<rawPrediction, prediction, bounds, featureImportance, rSquared, hitRate>>

\* No request is waiting.
Nobody == [pc |-> "None"]

NoMacro == [fedFunds |-> <<>>, cpi |-> <<>>]

\* fetchStockData's promise settled: resolved with bars, or rejected with an
\* error; NoStock while it has not.
Resolved(bars) == [bars |-> bars, error |-> ""]

Rejected(message) == [bars |-> EmptyArray, error |-> message]

NoStock == Resolved(EmptyArray)

NoNorm == [normalized |-> EmptyArray, means |-> <<>>, stds |-> <<>>]

NoBounds == [lower |-> 0, upper |-> 0]

NoDiagnostics == [ssRes |-> 0, ssTot |-> 0, value |-> NaN]

NoHitRate == [correctDirection |-> 0, totalSamples |-> 0, value |-> 0]

\* No call of getTeamsYearStats has been made; no form is on the page.
NotCalled == [phase |-> "none"]

Unmounted == [mounted |-> FALSE]

Init ==
    /\ \E a \in Arrivals : req = a[1] /\ now = Today * TicksPerDay + a[2]
    /\ pc = "Validating"
    /\ formattedTicker = <<>>
    /\ daysAhead = NaN
    /\ stockFetch = "idle"
    /\ macroFetch = "idle"
    /\ stockResult = NoStock
    /\ macroResult = NoMacro
    /\ macroReply = "none"
    /\ stockData = EmptyArray
    /\ macroData = NoMacro
    /\ processedData = EmptyArray
    /\ X = EmptyArray
    /\ y = EmptyArray
    /\ norm = NoNorm
    /\ coefficients = <<>>
    /\ rawPrediction = 0
    /\ prediction = 0
    /\ bounds = NoBounds
    /\ featureImportance = <<>>
    /\ rSquared = NoDiagnostics
    /\ hitRate = NoHitRate
    /\ log = <<>>
    /\ response = [status |-> 0]
    /\ parked = Nobody
    /\ teamStats = NotCalled
    /\ form = Unmounted

\* A faulty variant of the catch block below: the error response also
\* carries the prediction computed so far.
FailKeepingResult(message) ==
    /\ pc' = "Failed"
    /\ response' = [status |-> 400, error |-> message, predicted_price |-> prediction]

\* The catch block (index.ts 460-468): the error's message, status 400.
Fail(message) ==
    /\ pc' = "Failed"
    /\ response' = [status |-> 400, error |-> message]

\* ------------------------------------------------------------------------
\* Validating (index.ts 236-263)
\* ------------------------------------------------------------------------
CeilDiv(a, b) == -((-a) \div b)

\* new Date(target_date).getTime(), in ticks
TargetTime(target_date) ==
    IF target_date[1] = "date" THEN Num(target_date[2] * TicksPerDay) ELSE NaN

\* Math.ceil((targetDate.getTime() - today.getTime()) / (1000 * 60 * 60 * 24))
DaysAhead(target_date, clock) ==
    LET t == TargetTime(target_date)
    IN  IF IsNum(t) THEN Num(CeilDiv(t[2] - clock, TicksPerDay)) ELSE NaN

\* A faulty variant of the check below: daysAhead < 0, which lets a horizon
\* of zero through.
NotInFutureStrict(d) == IsNum(d) /\ d[2] < 0

\* daysAhead <= 0, false for NaN
NotInFuture(d) == IsNum(d) /\ d[2] <= 0

\* A faulty variant of the check below: only the ticker is required.
MissingTicker(r) == r.ticker = <<>>

\* !ticker || !market || !target_date
MissingFields(r) == r.ticker = <<>> \/ r.market = "" \/ r.target_date = NoDate

Validate ==
    /\ pc = "Validating"
    /\ \E polygonKey \in BOOLEAN :
         LET d == DaysAhead(req.target_date, now)
         IN  IF MissingFields(req)
             THEN /\ Fail("Missing required fields: ticker, market, target_date")
                  /\ UNCHANGED <<formattedTicker, daysAhead, stockFetch, macroFetch>>
             ELSE /\ formattedTicker' = formatTicker(req.ticker, req.market)
                  /\ daysAhead' = d
                  /\ IF NotInFuture(d)
                     THEN /\ Fail("Target date must be in the future")
                          /\ UNCHANGED <<stockFetch, macroFetch>>
                     ELSE IF ~polygonKey
                     THEN /\ Fail("POLYGON_API_KEY not configured")
                          /\ UNCHANGED <<stockFetch, macroFetch>>
                     ELSE /\ pc' = "FetchingData"
                          /\ stockFetch' = "pending"
                          /\ macroFetch' = "pending"
                          /\ UNCHANGED response
    /\ UNCHANGED <<req, now, parked, clientVars, stockResult, macroResult, macroReply, dataVars,
                   processedData, modelVars, resultVars, log>>

\* ------------------------------------------------------------------------
\* FetchingData (index.ts 159-227, 260-267)
\* ------------------------------------------------------------------------
\* fetchStockData: the fetch or the JSON parse throws, the status is not OK,
\* there are no results, or the bars are returned.
StockFetchSettles ==
    /\ stockFetch = "pending"
    /\ \/ \E message \in {"fetch failed", "Polygon error: NOT_FOUND",
                          "No data returned from Polygon"} :
            /\ stockFetch' = "rejected"
            /\ stockResult' = Rejected(message)
       \/ \E series \in StockSeries :
            /\ stockFetch' = "resolved"
            /\ stockResult' = Resolved(Bars(series[1], series[2], series[3]))
    /\ UNCHANGED <<pc, req, now, parked, clientVars, formattedTicker, daysAhead, macroFetch, macroResult,
                   macroReply, dataVars, processedData, modelVars, resultVars, log,
                   response>>

\* processObservations: a Map keeps a key's first position and last value.
RECURSIVE MapSet(_, _, _)
MapSet(map, key, value) ==
    IF map = <<>> THEN <<[date |-> key, value |-> value]>>
    ELSE IF Head(map).date = key
         THEN <<[date |-> key, value |-> value]>> \o Tail(map)
         ELSE <<Head(map)>> \o MapSet(Tail(map), key, value)

RECURSIVE processObservations(_)
processObservations(observations) ==
    IF observations = <<>> THEN <<>>
    ELSE LET last == observations[Len(observations)]
         IN  MapSet(processObservations(SubSeq(observations, 1, Len(observations) - 1)),
                    last.date, last.value)

\* fetchMacroData: a fetch or a JSON parse that throws is caught and gives
\* two empty maps; so does a payload without observations, which
\* processObservations skips; else the two series are read.
MacroFetchSettles ==
    /\ macroFetch = "pending"
    /\ macroFetch' = "resolved"
    /\ \/ /\ macroReply' = "unreachable"
          /\ macroResult' = NoMacro
       \/ /\ macroReply' = "malformed"
          /\ macroResult' = NoMacro
       \/ /\ macroReply' = "ok"
          /\ \E payload \in MacroPayloads :
               macroResult' = [fedFunds |-> processObservations(payload.fedFunds),
                               cpi      |-> processObservations(payload.cpi)]
    /\ UNCHANGED <<pc, req, now, parked, clientVars, formattedTicker, daysAhead, stockFetch, stockResult,
                   dataVars, processedData, modelVars, resultVars, log, response>>

\* A faulty variant of the gate below: stockData.length <= 200.
AtMostMinBars(bars) == Length(bars) <= MinBars

\* stockData.length < 200
TooFewBars(bars) == Length(bars) < MinBars

\* A faulty variant of the join below: it waits for the price fetch alone.
StockResolved(stock, macro) == stock = "resolved"

\* Promise.all resolves when every promise has resolved.
BothResolved(stock, macro) == stock = "resolved" /\ macro = "resolved"

\* await Promise.all([...]): it rejects as soon as fetchStockData rejects, and
\* resolves when both have resolved; then the bar-count gate.
FetchJoin ==
    /\ pc = "FetchingData"
    /\ \/ /\ stockFetch = "rejected"
          /\ Fail(stockResult.error)
          /\ UNCHANGED dataVars
       \/ /\ BothResolved(stockFetch, macroFetch)
          /\ stockData' = stockResult.bars
          /\ macroData' = macroResult
          /\ IF TooFewBars(stockResult.bars)
             THEN Fail("Insufficient historical data")
             ELSE pc' = "Aligning" /\ UNCHANGED response
    /\ UNCHANGED <<req, now, parked, clientVars, formattedTicker, daysAhead, fetchVars, processedData,
                   modelVars, resultVars, log>>

\* ------------------------------------------------------------------------
\* Aligning (index.ts 269-320)
\* ------------------------------------------------------------------------
\* The loop of getMacroValue from entry k on.  Dates are day numbers >= 1,
\* so 0 stands for the empty string latestDate starts as.
\* A faulty variant of the loop below: the test d <= dateStr is left out, so
\* the latest observation of the whole map is taken.
RECURSIVE MacroScanNoCutoff(_, _, _, _, _)
MacroScanNoCutoff(map, dateStr, k, latestDate, latestVal) ==
    IF k > Len(map) THEN latestVal
    ELSE IF map[k].date > latestDate
         THEN MacroScanNoCutoff(map, dateStr, k + 1, map[k].date, map[k].value)
         ELSE MacroScanNoCutoff(map, dateStr, k + 1, latestDate, latestVal)

RECURSIVE MacroScan(_, _, _, _, _)
MacroScan(map, dateStr, k, latestDate, latestVal) ==
    IF k > Len(map) THEN latestVal
    ELSE IF map[k].date <= dateStr /\ map[k].date > latestDate
         THEN MacroScan(map, dateStr, k + 1, map[k].date, map[k].value)
         ELSE MacroScan(map, dateStr, k + 1, latestDate, latestVal)

getMacroValue(map, dateStr) == MacroScan(map, dateStr, 1, 0, Null)

\* v || fallback: null, NaN and 0 are falsy.
Truthy(v) == v # Null /\ IsNum(v) /\ v[2] # 0

OrElse(v, fallback) == IF Truthy(v) THEN v[2] ELSE fallback

FallbackFedFunds == (45 * Scale) \div 10

FallbackCpi == 300 * Scale

\* The row pushed for bar i (index.ts 299-315).
FeatureRow(bars, macro, sma20, volatility, logReturn5d, logReturn10d, volumeZScore60d, i) ==
    [close              |-> bars[i].close,
     sma_20             |-> sma20[i][1],
     volatility         |-> volatility[i][1],
     log_return_5d      |-> logReturn5d[i][1],
     log_return_10d     |-> logReturn10d[i][1],
     volume_z_score_60d |-> volumeZScore60d[i][1],
     fed_funds          |-> OrElse(getMacroValue(macro.fedFunds, bars[i].date),
                                   FallbackFedFunds),
     cpi                |-> OrElse(getMacroValue(macro.cpi, bars[i].date), FallbackCpi)]

\* The rows the loop pushes for the bars lo .. hi, in the order of the bars
\* (built by halves to keep the recursion shallow).
RECURSIVE BuildRows(_, _, _, _, _, _, _, _, _)
BuildRows(bars, macro, sma20, volatility, logReturn5d, logReturn10d, volumeZScore60d, lo, hi) ==
    IF lo > hi THEN <<>>
    ELSE IF lo = hi
    THEN IF \/ sma20[lo] = Null \/ volatility[lo] = Null \/ logReturn5d[lo] = Null
            \/ logReturn10d[lo] = Null \/ volumeZScore60d[lo] = Null
         THEN <<>>
         ELSE <<FeatureRow(bars, macro, sma20, volatility, logReturn5d, logReturn10d,
                           volumeZScore60d, lo)>>
    ELSE LET mid == (lo + hi) \div 2
         IN  BuildRows(bars, macro, sma20, volatility, logReturn5d, logReturn10d,
                       volumeZScore60d, lo, mid)
             \o BuildRows(bars, macro, sma20, volatility, logReturn5d, logReturn10d,
                          volumeZScore60d, mid + 1, hi)

BuildProcessedData(bars, macro) ==
    LET closes  == [i \in DOMAIN bars |-> bars[i].close]
        volumes == [i \in DOMAIN bars |-> bars[i].volume]
    IN  ArrayOf(BuildRows(bars, macro,
                          calculateSMA(closes, SmaPeriod),
                          calculateVolatility(closes, VolPeriod),
                          calculateLogReturn(closes, ShortMomentum),
                          calculateLogReturn(closes, LongMomentum),
                          calculateRollingZScore(volumes, ZScorePeriod),
                          FirstRowIndex, Length(bars) - 1))

\* processedData.length < daysAhead + 30, false for NaN
TooFewRows(rows, d) == IsNum(d) /\ Length(rows) < d[2] + MinTrainingRows

Align ==
    /\ pc = "Aligning"
    /\ processedData' = BuildProcessedData(stockData, macroData)
    /\ IF TooFewRows(processedData', daysAhead)
       THEN Fail("Insufficient data for prediction horizon")
       ELSE pc' = "Training" /\ UNCHANGED response
    /\ UNCHANGED <<req, now, parked, clientVars, formattedTicker, daysAhead, fetchVars, dataVars, modelVars,
                   resultVars, log>>

\* ------------------------------------------------------------------------
\* Training (index.ts 322-349)
\* ------------------------------------------------------------------------
Features(row) ==
    <<row.close, row.sma_20, row.volatility, row.log_return_5d, row.log_return_10d,
      row.volume_z_score_60d, row.fed_funds, row.cpi>>

\* A faulty variant of TrainingCount: the last example is left out.
TrainingCountShort(rows, d) == IF IsNum(d) THEN Max(0, Length(rows) - d[2] - 1) ELSE 0

\* i < processedData.length - daysAhead holds for no i when daysAhead is NaN.
TrainingCount(rows, d) == IF IsNum(d) THEN Max(0, Length(rows) - d[2]) ELSE 0

TrainingX(rows, d) == [i \in 0..(TrainingCount(rows, d) - 1) |-> Features(rows[i])]

TrainingY(rows, d) == [i \in 0..(TrainingCount(rows, d) - 1) |-> <<rows[i + d[2]].close>>]

Column(data, j) == [i \in DOMAIN data |-> data[i][j]]

SumAll(a) == SumRange(a, 0, Length(a) - 1)

Mean(data, j) == SumAll(Column(data, j)) \div Length(data)

\* Math.sqrt(sum / data.length) || 1
StdOrOne(root) == IF root = 0 THEN Scale ELSE root

Std(data, j, mean) == StdOrOne(StdAbout(Column(data, j), 0, Length(data) - 1, mean))

\* (val - means[i]) / stds[i]
StandardizeAt(features, means, stds, j) == FDiv(features[j] - means[j], stds[j])

Standardize(features, means, stds) ==
    <<StandardizeAt(features, means, stds, 1),
      StandardizeAt(features, means, stds, 2),
      StandardizeAt(features, means, stds, 3),
      StandardizeAt(features, means, stds, 4),
      StandardizeAt(features, means, stds, 5),
      StandardizeAt(features, means, stds, 6),
      StandardizeAt(features, means, stds, 7),
      StandardizeAt(features, means, stds, 8)>>

NormalizeWith(data, means, stds) ==
    [normalized |-> [i \in DOMAIN data |-> Standardize(data[i], means, stds)],
     means      |-> means,
     stds       |-> stds]

StdsOf(data, means) ==
    <<Std(data, 1, means[1]), Std(data, 2, means[2]),
      Std(data, 3, means[3]), Std(data, 4, means[4]),
      Std(data, 5, means[5]), Std(data, 6, means[6]),
      Std(data, 7, means[7]), Std(data, 8, means[8])>>

MeansOf(data) ==
    <<Mean(data, 1), Mean(data, 2), Mean(data, 3), Mean(data, 4),
      Mean(data, 5), Mean(data, 6), Mean(data, 7), Mean(data, 8)>>

NormalizeAbout(data, means) == NormalizeWith(data, means, StdsOf(data, means))

\* data is not empty: data[0].length throws for an empty array.
normalizeData(data) == NormalizeAbout(data, MeansOf(data))

Dot(a, b) == SumRange([j \in 1..NumFeatures |-> FMul(a[j], b[j])], 1, NumFeatures)

\* X'y of RidgeRegression.train
XtyAt(normalized, targets, j) ==
    SumAll([i \in DOMAIN normalized |-> FMul(normalized[i][j], targets[i][1])])

Xty(normalized, targets) ==
    <<XtyAt(normalized, targets, 1), XtyAt(normalized, targets, 2),
      XtyAt(normalized, targets, 3), XtyAt(normalized, targets, 4),
      XtyAt(normalized, targets, 5), XtyAt(normalized, targets, 6),
      XtyAt(normalized, targets, 7), XtyAt(normalized, targets, 8)>>

ZeroVector == <<0, 0, 0, 0, 0, 0, 0, 0>>

UnitVector(k, w) == [ZeroVector EXCEPT ![k] = w]

\* RidgeRegression.train returns beta = (X'X + lambda I)^-1 X'y, computed by
\* ml-matrix in floating point.  The model does not compute the inverse: it
\* takes for beta any vector of WeightGrid that has the two properties every
\* such beta has, the matrix being positive definite for lambda = 1:
\* beta = 0 exactly when X'y = 0, and otherwise (X'y) . beta > 0.
WeightGrid ==
    {ZeroVector}
    \cup {UnitVector(k, w) : k \in 1..NumFeatures, w \in {-(Scale \div 5), Scale \div 5}}
    \cup {UnitVector(1, w) : w \in {-(3 * Scale), 3 * Scale}}

ConsistentWith(b) ==
    {w \in WeightGrid : IF b = ZeroVector THEN w = ZeroVector ELSE Dot(b, w) > 0}

RidgeCandidates(normalized, targets) == ConsistentWith(Xty(normalized, targets))

\* RidgeRegression.predict
predict(weights, features) == Dot(features, weights)

Train ==
    /\ pc = "Training"
    /\ X' = TrainingX(processedData, daysAhead)
    /\ y' = TrainingY(processedData, daysAhead)
    /\ IF Length(X') = 0
       THEN /\ Fail("Cannot read properties of undefined (reading 'length')")
            /\ UNCHANGED <<norm, coefficients>>
       ELSE /\ norm' = normalizeData(X')
            /\ coefficients' \in RidgeCandidates(norm'.normalized, y')
            /\ pc' = "Predicting"
            /\ UNCHANGED response
    /\ UNCHANGED <<req, now, parked, clientVars, formattedTicker, daysAhead, fetchVars, dataVars,
                   processedData, resultVars, log>>

\* ------------------------------------------------------------------------
\* Predicting and the metrics (index.ts 351-412)
\* ------------------------------------------------------------------------
\* sigma = dailyVol * sqrt(daysAhead), in thousandths like dailyVol;
\* currentPrice * (1 -+ 2 sigma) is computed as currentPrice -+ currentPrice * 2 sigma.
BandAround(currentPrice, half) ==
    [lower |-> currentPrice - half, upper |-> currentPrice + half]

calculateBounds(currentPrice, dailyVol, days) ==
    BandAround(currentPrice,
               (currentPrice * (2 * FMul(dailyVol, FSqrt(days * Scale)))) \div LogOne)

\* A faulty variant of the clamp below: Math.max(lower, prediction) alone.
ClampFromBelow(value, lower, upper) == Max(lower, value)

\* Math.max(lower, Math.min(prediction, upper))
Clamp(value, lower, upper) == Max(lower, Min(value, upper))

\* (absWeights[i] / totalWeight) * 100 for every feature
ImportanceAt(weights, totalWeight, j) ==
    JsTimesHundred(JsDiv(Abs(weights[j]), totalWeight))

ImportanceOf(weights, totalWeight) ==
    <<ImportanceAt(weights, totalWeight, 1),
      ImportanceAt(weights, totalWeight, 2),
      ImportanceAt(weights, totalWeight, 3),
      ImportanceAt(weights, totalWeight, 4),
      ImportanceAt(weights, totalWeight, 5),
      ImportanceAt(weights, totalWeight, 6),
      ImportanceAt(weights, totalWeight, 7),
      ImportanceAt(weights, totalWeight, 8)>>

FeatureImportance(weights) ==
    ImportanceOf(weights, SumRange([j \in 1..NumFeatures |-> Abs(weights[j])],
                                   1, NumFeatures))

\* Math.max(0, 1 - ssRes / ssTot)
RSquaredOf(ssRes, ssTot) ==
    [ssRes |-> ssRes, ssTot |-> ssTot,
     value |-> JsMaxZero(JsOneMinus(JsDiv(ssRes, ssTot)))]

Square(d) == FMul(d, d)

SsRes(weights, normalized, targets) ==
    SumAll([i \in DOMAIN normalized |->
                Square(predict(weights, normalized[i]) - targets[i][1])])

SsTot(targets, meanY) ==
    SumAll([i \in DOMAIN targets |-> Square(targets[i][1] - meanY)])

RSquared(weights, normalized, targets) ==
    RSquaredOf(SsRes(weights, normalized, targets),
               SsTot(targets, SumAll(Column(targets, 1)) \div Length(targets)))

\* predictedDirection === actualDirection
IsHit(predPrice, actualPrice, currentPriceAtT) ==
    Sign(predPrice - currentPriceAtT) = Sign(actualPrice - currentPriceAtT)

HitRateOf(correctDirection, totalSamples) ==
    [correctDirection |-> correctDirection, totalSamples |-> totalSamples,
     value |-> IF totalSamples > 0 THEN FDiv(correctDirection, totalSamples) ELSE 0]

HitRate(weights, normalized, targets, data) ==
    HitRateOf(Cardinality({i \in DOMAIN normalized :
                             IsHit(predict(weights, normalized[i]), targets[i][1],
                                   data[i][1])}),
              Length(normalized))

Latest(rows) == rows[Length(rows) - 1]

\* A faulty variant of latestFeaturesNorm: the standardizer is fitted again,
\* on the one row to standardize.
latestFeaturesRefitted(features, means, stds) ==
    normalizeData([i \in {0} |-> features]).normalized[0]

\* latestFeatures.map((val, i) => (val - means[i]) / stds[i])
latestFeaturesNorm(features, means, stds) == Standardize(features, means, stds)

Predict ==
    /\ pc = "Predicting"
    /\ rawPrediction' =
          predict(coefficients, latestFeaturesNorm(Features(Latest(processedData)),
                                                  norm.means, norm.stds))
    /\ bounds' = calculateBounds(Latest(processedData).close,
                                 Latest(processedData).volatility, daysAhead[2])
    /\ prediction' = Clamp(rawPrediction', bounds'.lower, bounds'.upper)
    /\ featureImportance' = FeatureImportance(coefficients)
    /\ rSquared' = RSquared(coefficients, norm.normalized, y)
    /\ hitRate' = HitRate(coefficients, norm.normalized, y, X)
    /\ pc' = "Persisting"
    /\ UNCHANGED <<req, now, parked, clientVars, formattedTicker, daysAhead, fetchVars, dataVars,
                   processedData, modelVars, log, response>>

\* ------------------------------------------------------------------------
\* Persisting and the response (index.ts 414-459)
\* ------------------------------------------------------------------------
\* Math.round(x * perUnit) / perUnit on a number with `one` units to 1.
RoundTo(x, perUnit, one) == ((2 * x * perUnit + one) \div (2 * one)) * (one \div perUnit)

JsRoundTo(x, perUnit, one) == IF IsNum(x) THEN Num(RoundTo(x[2], perUnit, one)) ELSE x

LogRecord ==
    [ticker          |-> formattedTicker,
     market          |-> req.market,
     target_date     |-> req.target_date,
     predicted_price |-> prediction,
     lower_bound     |-> bounds.lower,
     upper_bound     |-> bounds.upper,
     input_features  |->
        [latest           |-> Latest(processedData),
         r_squared        |-> rSquared.value,
         hit_rate         |-> hitRate.value,
         training_samples |-> Length(X)]]

SuccessBody ==
    [ticker             |-> formattedTicker,
     market             |-> req.market,
     target_date        |-> req.target_date,
     days_ahead         |-> daysAhead,
     current_price      |-> Latest(processedData).close,
     predicted_price    |-> RoundTo(prediction, 100, Scale),
     lower_bound        |-> RoundTo(bounds.lower, 100, Scale),
     upper_bound        |-> RoundTo(bounds.upper, 100, Scale),
     currency           |-> IF req.market = "TSX" THEN "CAD" ELSE "USD",
     r_squared          |-> JsRoundTo(rSquared.value, 1000, Scale),
     hit_rate           |-> RoundTo(hitRate.value, 1000, Scale),
     training_samples   |-> Length(X),
     volatility         |-> RoundTo(Latest(processedData).volatility, 10000, LogOne),
     feature_importance |-> featureImportance]

\* A faulty variant of the insert below: the row is inserted twice.
InsertedTwice(table, dbError) ==
    IF dbError THEN table ELSE Append(Append(table, LogRecord), LogRecord)

\* supabase.from("stock_predictions").insert({...}): the row is added unless
\* the insert reports an error.
Inserted(table, dbError) == IF dbError THEN table ELSE Append(table, LogRecord)

\* createClient throws without SUPABASE_URL; the insert resolves with or
\* without an error, which is only logged.
Persist ==
    /\ pc = "Persisting"
    /\ \/ /\ Fail("supabaseUrl is required.")
          /\ UNCHANGED log
       \/ /\ \E dbError \in BOOLEAN : log' = Inserted(log, dbError)
          /\ pc' = "Done"
          /\ response' = [status |-> 200, body |-> SuccessBody]
    /\ UNCHANGED <<req, now, parked, clientVars, formattedTicker, daysAhead, fetchVars, dataVars,
                   processedData, modelVars, resultVars>>

Next ==
    \/ Validate
    \/ StockFetchSettles
    \/ MacroFetchSettles
    \/ FetchJoin
    \/ Align
    \/ Train
    \/ Predict
    \/ Persist

Spec == Init /\ [][Next]_vars

\* ------------------------------------------------------------------------
\* The as-of join on its own: a request that has fetched MinBars bars and a
\* macro payload that lists some of four observations in some order, the
\* last of them dated after the last bar.  cpi lists them in the reverse of
\* the order of fedFunds.
\* ------------------------------------------------------------------------
JoinDates == <<EarlyDay, MidDay, LateDay, FutureDay>>

FedFundsOn == [k \in DOMAIN JoinDates |-> Num(5 * Scale + 250 * k)]

CpiOn == [k \in DOMAIN JoinDates |-> Num((310 + k) * Scale)]

Orders ==
    {order \in UNION {[1..n -> 1..Len(JoinDates)] : n \in 0..Len(JoinDates)} :
        \A i, j \in DOMAIN order : i # j => order[i] # order[j]}

Reverse(seq) == [i \in 1..Len(seq) |-> seq[Len(seq) + 1 - i]]

Listed(order, valueOn) ==
    [i \in 1..Len(order) |-> Obs(JoinDates[order[i]], valueOn[order[i]])]

JoinInit ==
    /\ \E order \in Orders :
         macroResult =
            [fedFunds |-> processObservations(Listed(order, FedFundsOn)),
             cpi      |-> processObservations(Listed(Reverse(order), CpiOn))]
    /\ macroReply = "ok"
    /\ macroData = macroResult
    /\ stockResult = Resolved(Bars("trend", "weekdays", MinBars))
    /\ stockData = stockResult.bars
    /\ req = [ticker |-> <<"r", "y">>, market |-> "NASDAQ",
              target_date |-> Day(Today + 10)]
    /\ now = Today * TicksPerDay
    /\ formattedTicker = formatTicker(req.ticker, req.market)
    /\ daysAhead = DaysAhead(req.target_date, now)
    /\ pc = "Aligning"
    /\ stockFetch = "resolved"
    /\ macroFetch = "resolved"
    /\ processedData = EmptyArray
    /\ X = EmptyArray
    /\ y = EmptyArray
    /\ norm = NoNorm
    /\ coefficients = <<>>
    /\ rawPrediction = 0
    /\ prediction = 0
    /\ bounds = NoBounds
    /\ featureImportance = <<>>
    /\ rSquared = NoDiagnostics
    /\ hitRate = NoHitRate
    /\ log = <<>>
    /\ response = [status |-> 0]
    /\ parked = Nobody
    /\ teamStats = NotCalled
    /\ form = Unmounted

JoinNext == Align

JoinSpec == JoinInit /\ [][JoinNext]_vars

\* ------------------------------------------------------------------------
\* The indicators on a stock whose price and volume never change: the
\* request is at the alignment with the bars of such a stock.
\* ------------------------------------------------------------------------
FlatLevels == {(k * Scale) \div 2 : k \in 2..8}

FlatBars(level, n) ==
    [i \in 0..(n - 1) |->
        [date |-> BarDate("daily", n, i), close |-> level, volume |-> Scale * level]]

FlatInit ==
    /\ \E level \in FlatLevels, n \in MinBars..MaxBars :
          stockResult = Resolved(FlatBars(level, n))
    /\ stockData = stockResult.bars
    /\ macroResult = [fedFunds |-> processObservations(<<Obs(EarlyDay, Num(5 * Scale))>>),
                      cpi      |-> processObservations(<<Obs(EarlyDay, Num(300 * Scale))>>)]
    /\ macroReply = "ok"
    /\ macroData = macroResult
    /\ req = [ticker |-> <<"r", "y">>, market |-> "NASDAQ",
              target_date |-> Day(Today + 10)]
    /\ now = Today * TicksPerDay
    /\ formattedTicker = formatTicker(req.ticker, req.market)
    /\ daysAhead = DaysAhead(req.target_date, now)
    /\ pc = "Aligning"
    /\ stockFetch = "resolved"
    /\ macroFetch = "resolved"
    /\ processedData = EmptyArray
    /\ X = EmptyArray
    /\ y = EmptyArray
    /\ norm = NoNorm
    /\ coefficients = <<>>
    /\ rawPrediction = 0
    /\ prediction = 0
    /\ bounds = NoBounds
    /\ featureImportance = <<>>
    /\ rSquared = NoDiagnostics
    /\ hitRate = NoHitRate
    /\ log = <<>>
    /\ response = [status |-> 0]
    /\ parked = Nobody
    /\ teamStats = NotCalled
    /\ form = Unmounted

FlatNext == Align

FlatSpec == FlatInit /\ [][FlatNext]_vars

\* ------------------------------------------------------------------------
\* The hit-rate loop on its own (index.ts 395-412): two training examples,
\* the predicted price, the realized price and the price at t of each drawn
\* from PriceLevels.  The weights pick the first normalized feature, so
\* regression.predict(x) is the drawn predicted price.
\* ------------------------------------------------------------------------
PriceLevels == {Scale, 2 * Scale, 3 * Scale}

Examples == {0, 1}

HitInit ==
    /\ \E predPrice \in [Examples -> PriceLevels] :
         norm = [normalized |-> [i \in Examples |-> UnitVector(1, predPrice[i])],
                 means      |-> ZeroVector,
                 stds       |-> [j \in 1..NumFeatures |-> Scale]]
    /\ \E actualPrice \in [Examples -> PriceLevels] :
         y = [i \in Examples |-> <<actualPrice[i]>>]
    /\ \E currentPriceAtT \in [Examples -> PriceLevels] :
         X = [i \in Examples |-> UnitVector(1, currentPriceAtT[i])]
    /\ coefficients = UnitVector(1, Scale)
    /\ pc = "Predicting"
    /\ req = [ticker |-> <<"r", "y">>, market |-> "NASDAQ",
              target_date |-> Day(Today + 10)]
    /\ now = Today * TicksPerDay
    /\ formattedTicker = formatTicker(req.ticker, req.market)
    /\ daysAhead = DaysAhead(req.target_date, now)
    /\ stockFetch = "resolved"
    /\ macroFetch = "resolved"
    /\ stockResult = NoStock
    /\ macroResult = NoMacro
    /\ macroReply = "ok"
    /\ stockData = EmptyArray
    /\ macroData = NoMacro
    /\ processedData = EmptyArray
    /\ rawPrediction = 0
    /\ prediction = 0
    /\ bounds = NoBounds
    /\ featureImportance = <<>>
    /\ rSquared = NoDiagnostics
    /\ hitRate = NoHitRate
    /\ log = <<>>
    /\ response = [status |-> 0]
    /\ parked = Nobody
    /\ teamStats = NotCalled
    /\ form = Unmounted

\* The loop of index.ts 399-411 and the division that follows it.
MeasureHitRate ==
    /\ pc = "Predicting"
    /\ hitRate = NoHitRate
    /\ hitRate' = HitRate(coefficients, norm.normalized, y, X)
    /\ UNCHANGED <<pc, req, now, parked, clientVars, formattedTicker, daysAhead, fetchVars, dataVars,
                   processedData, modelVars, rawPrediction, prediction, bounds,
                   featureImportance, rSquared, log, response>>

HitNext == MeasureHitRate

HitSpec == HitInit /\ [][HitNext]_vars

\* ------------------------------------------------------------------------
\* formatTicker on every ticker of up to MaxTickerLen characters: the
\* requests of this specification differ in their ticker and market only,
\* and the handler formats the ticker when it validates the request.
\* ------------------------------------------------------------------------
MaxTickerLen == 6

\* A white-space character, the separator, a lower-case and an upper-case
\* letter: enough to write " .tO", ".tO.tO" and "tO.To ".
TickerAlphabet == {" ", ".", "t", "O"}

TickerStrings == UNION {[1..n -> TickerAlphabet] : n \in 0..MaxTickerLen}

TickerInit ==
    /\ \E ticker \in TickerStrings, market \in Markets :
         req = [ticker |-> ticker, market |-> market, target_date |-> Day(Today + 10)]
    /\ now = Today * TicksPerDay
    /\ pc = "Validating"
    /\ formattedTicker = <<>>
    /\ daysAhead = NaN
    /\ stockFetch = "idle"
    /\ macroFetch = "idle"
    /\ stockResult = NoStock
    /\ macroResult = NoMacro
    /\ macroReply = "none"
    /\ stockData = EmptyArray
    /\ macroData = NoMacro
    /\ processedData = EmptyArray
    /\ X = EmptyArray
    /\ y = EmptyArray
    /\ norm = NoNorm
    /\ coefficients = <<>>
    /\ rawPrediction = 0
    /\ prediction = 0
    /\ bounds = NoBounds
    /\ featureImportance = <<>>
    /\ rSquared = NoDiagnostics
    /\ hitRate = NoHitRate
    /\ log = <<>>
    /\ response = [status |-> 0]
    /\ parked = Nobody
    /\ teamStats = NotCalled
    /\ form = Unmounted

TickerNext == Validate

TickerSpec == TickerInit /\ [][TickerNext]_vars

\* ------------------------------------------------------------------------
\* Two requests served by one isolate.  The handler's variables are those
\* of the request that is running; the other request waits at an await
\* (req.json(), Promise.all, the insert) or has ended, and its variables
\* are kept in parked.  The stock_predictions table is the one thing both
\* requests write to.
\* ------------------------------------------------------------------------
\* A request that has just arrived.
FreshRequest(request, clock) ==
    [pc                |-> "Validating",
     req               |-> request,
     now               |-> clock,
     formattedTicker   |-> <<>>,
     daysAhead         |-> NaN,
     stockFetch        |-> "idle",
     macroFetch        |-> "idle",
     stockResult       |-> NoStock,
     macroResult       |-> NoMacro,
     macroReply        |-> "none",
     stockData         |-> EmptyArray,
     macroData         |-> NoMacro,
     processedData     |-> EmptyArray,
     X                 |-> EmptyArray,
     y                 |-> EmptyArray,
     norm              |-> NoNorm,
     coefficients      |-> <<>>,
     rawPrediction     |-> 0,
     prediction        |-> 0,
     bounds            |-> NoBounds,
     featureImportance |-> <<>>,
     rSquared          |-> NoDiagnostics,
     hitRate           |-> NoHitRate,
     response          |-> [status |-> 0]]

\* The variables of the running request, as a waiting request keeps them.
Snapshot ==
    [pc                |-> pc,
     req               |-> req,
     now               |-> now,
     formattedTicker   |-> formattedTicker,
     daysAhead         |-> daysAhead,
     stockFetch        |-> stockFetch,
     macroFetch        |-> macroFetch,
     stockResult       |-> stockResult,
     macroResult       |-> macroResult,
     macroReply        |-> macroReply,
     stockData         |-> stockData,
     macroData         |-> macroData,
     processedData     |-> processedData,
     X                 |-> X,
     y                 |-> y,
     norm              |-> norm,
     coefficients      |-> coefficients,
     rawPrediction     |-> rawPrediction,
     prediction        |-> prediction,
     bounds            |-> bounds,
     featureImportance |-> featureImportance,
     rSquared          |-> rSquared,
     hitRate           |-> hitRate,
     response          |-> response]

\* The running request is saved.
Running(saved) ==
    /\ pc = saved.pc
    /\ req = saved.req
    /\ now = saved.now
    /\ formattedTicker = saved.formattedTicker
    /\ daysAhead = saved.daysAhead
    /\ stockFetch = saved.stockFetch
    /\ macroFetch = saved.macroFetch
    /\ stockResult = saved.stockResult
    /\ macroResult = saved.macroResult
    /\ macroReply = saved.macroReply
    /\ stockData = saved.stockData
    /\ macroData = saved.macroData
    /\ processedData = saved.processedData
    /\ X = saved.X
    /\ y = saved.y
    /\ norm = saved.norm
    /\ coefficients = saved.coefficients
    /\ rawPrediction = saved.rawPrediction
    /\ prediction = saved.prediction
    /\ bounds = saved.bounds
    /\ featureImportance = saved.featureImportance
    /\ rSquared = saved.rSquared
    /\ hitRate = saved.hitRate
    /\ response = saved.response

\* A faulty variant of HorizonOf: daysAhead is a variable of the module,
\* which the request that validated last has written.
SharedHorizon(saved) == daysAhead

\* const daysAhead (index.ts 245) belongs to the invocation of the handler.
HorizonOf(saved) == saved.daysAhead

\* The waiting request runs on with its own variables.
Resume(saved) ==
    /\ pc' = saved.pc
    /\ req' = saved.req
    /\ now' = saved.now
    /\ formattedTicker' = saved.formattedTicker
    /\ daysAhead' = HorizonOf(saved)
    /\ stockFetch' = saved.stockFetch
    /\ macroFetch' = saved.macroFetch
    /\ stockResult' = saved.stockResult
    /\ macroResult' = saved.macroResult
    /\ macroReply' = saved.macroReply
    /\ stockData' = saved.stockData
    /\ macroData' = saved.macroData
    /\ processedData' = saved.processedData
    /\ X' = saved.X
    /\ y' = saved.y
    /\ norm' = saved.norm
    /\ coefficients' = saved.coefficients
    /\ rawPrediction' = saved.rawPrediction
    /\ prediction' = saved.prediction
    /\ bounds' = saved.bounds
    /\ featureImportance' = saved.featureImportance
    /\ rSquared' = saved.rSquared
    /\ hitRate' = saved.hitRate
    /\ response' = saved.response

\* Where a request waits: the handler's awaits, and its end.
AwaitPoints == {"Validating", "FetchingData", "Persisting", "Done", "Failed"}

\* The running request waits, or has ended, and the other one runs on.
Yield ==
    /\ pc \in AwaitPoints
    /\ parked # Nobody
    /\ parked' = Snapshot
    /\ Resume(parked)
    /\ UNCHANGED <<log, clientVars>>

\* The two requests: their markets, target dates and arrival times differ.
FirstRequest ==
    [ticker |-> <<"r", "y">>, market |-> "NASDAQ", target_date |-> Day(Today + 10)]

SecondRequest ==
    [ticker |-> <<"r", "y">>, market |-> "TSX", target_date |-> Day(Today + 1)]

\* What the providers answer in this specification: the price provider is
\* unreachable or sends the series of the request's market; the macro
\* provider is unreachable or sends its longest payload; the fitted
\* weights are those of the candidates that weigh the close alone most.
PairBars(market) ==
    IF market = "TSX" THEN Bars("trend", "weekdays", MaxBars)
    ELSE Bars("trend", "daily", MinBars)

PairMacro == CHOOSE payload \in MacroPayloads : Len(payload.fedFunds) > 1

PairEnv ==
    /\ stockResult \in {NoStock, Rejected("fetch failed"), Resolved(PairBars(req.market))}
    /\ macroReply \in {"none", "unreachable", "ok"}
    /\ coefficients \in {<<>>, UnitVector(1, -(3 * Scale)), UnitVector(1, 3 * Scale)}
    /\ macroReply = "ok" =>
          macroResult = [fedFunds |-> processObservations(PairMacro.fedFunds),
                         cpi      |-> processObservations(PairMacro.cpi)]

PairInit ==
    /\ Running(FreshRequest(FirstRequest, Today * TicksPerDay))
    /\ parked = FreshRequest(SecondRequest, Today * TicksPerDay + TicksPerDay - 1)
    /\ teamStats = NotCalled
    /\ form = Unmounted
    /\ log = <<>>

PairNext ==
    \/ Next /\ PairEnv'
    \/ Yield

PairSpec == PairInit /\ [][PairNext]_vars

\* ------------------------------------------------------------------------
\* The browser's side.  While it is modelled no request is in the edge
\* function: the handler's variables rest.
\* ------------------------------------------------------------------------
HandlerAtRest ==
    /\ req = [ticker |-> <<>>, market |-> "", target_date |-> NoDate]
    /\ now = Today * TicksPerDay
    /\ pc = "Validating"
    /\ formattedTicker = <<>>
    /\ daysAhead = NaN
    /\ stockFetch = "idle"
    /\ macroFetch = "idle"
    /\ stockResult = NoStock
    /\ macroResult = NoMacro
    /\ macroReply = "none"
    /\ stockData = EmptyArray
    /\ macroData = NoMacro
    /\ processedData = EmptyArray
    /\ X = EmptyArray
    /\ y = EmptyArray
    /\ norm = NoNorm
    /\ coefficients = <<>>
    /\ rawPrediction = 0
    /\ prediction = 0
    /\ bounds = NoBounds
    /\ featureImportance = <<>>
    /\ rSquared = NoDiagnostics
    /\ hitRate = NoHitRate
    /\ log = <<>>
    /\ response = [status |-> 0]
    /\ parked = Nobody

handlerVars ==
    <<pc, req, now, formattedTicker, daysAhead, fetchVars, dataVars, modelVars, resultVars,
      processedData, log, response, parked>>

\* ------------------------------------------------------------------------
\* getTeamsYearStats (src/lib/api.js 91-136).  The teams are numbered by
\* their place in teamNumbers.  at[p] is where the promise of team p stands:
\* 0 its callback has not run, k in 1 .. 4 its fetch for Years[k] is in
\* flight, PromiseSettled its promise has resolved.  dataYear[p] is the statistics
\* service's part: the first of the years for which it has data for team p
\* (as an index of Years), 0 if it has none.
\* ------------------------------------------------------------------------
MaxTeams == 11

batchSize == 10

Years == <<2026, 2025, 2024, 2023>>

PromiseSettled == Len(Years) + 1

TeamCounts == {0, 1, batchSize, MaxTeams}

\* What the service has: data of the current year for every team; or none
\* for the first team and data of the year before for the last one.
Holdings(n) ==
    {[p \in 1..n |-> 1],
     [p \in 1..n |-> IF p = 1 THEN 0 ELSE IF p = n THEN 2 ELSE 1]}

TeamsInit ==
    /\ HandlerAtRest
    /\ form = Unmounted
    /\ \E n \in TeamCounts : \E held \in Holdings(n) :
          teamStats = [phase       |-> "idle",
                       teamNumbers |-> [p \in 1..n |-> p],
                       dataYear    |-> held,
                       at          |-> [p \in 1..n |-> 0],
                       results     |-> <<>>,
                       i           |-> 0]

\* { ...data, dataYear: year, hasCurrentYearData: year === 2026 }
YearStats(k) == [dataYear |-> Years[k], hasCurrentYearData |-> Years[k] = 2026]

\* results[num] = stats
Put(results, num, stats) ==
    [t \in DOMAIN results \cup {num} |-> IF t = num THEN stats ELSE results[t]]

\* The call, up to its first await: teamNumbers.map runs the callback of
\* every team, and each callback runs getTeamYearStats up to its first
\* fetch; then the loop awaits the first batch (there is none for no team).
CallGetTeamsYearStats ==
    /\ teamStats.phase = "idle"
    /\ teamStats' =
          [teamStats EXCEPT
              !.at = [p \in DOMAIN teamStats.at |-> 1],
              !.phase = IF Len(teamStats.teamNumbers) = 0 THEN "returned" ELSE "awaiting"]
    /\ UNCHANGED <<handlerVars, form>>

\* The fetch of team p for a year settles: with data the statistics are
\* stored and the promise resolves; otherwise (a response that is not ok, a
\* network error) the next year is fetched, and after the last year the
\* promise resolves without an entry.
TeamFetchSettles(p) ==
    /\ teamStats.phase = "awaiting"
    /\ teamStats.at[p] \in 1..Len(Years)
    /\ teamStats' =
          IF teamStats.dataYear[p] = teamStats.at[p]
          THEN [teamStats EXCEPT
                   !.results = Put(teamStats.results, teamStats.teamNumbers[p],
                                   YearStats(teamStats.at[p])),
                   !.at[p] = PromiseSettled]
          ELSE [teamStats EXCEPT !.at[p] = teamStats.at[p] + 1]
    /\ UNCHANGED <<handlerVars, form>>

\* promises.slice(i, i + batchSize), as places in teamNumbers
Batch(i, n) == {p \in 1..n : i < p /\ p <= i + batchSize}

\* await Promise.all(batch) resumes: the loop goes to the next batch, or
\* the results are returned.
BatchCompletes ==
    /\ teamStats.phase = "awaiting"
    /\ \A p \in Batch(teamStats.i, Len(teamStats.teamNumbers)) : teamStats.at[p] = PromiseSettled
    /\ teamStats' =
          [teamStats EXCEPT
              !.i = teamStats.i + batchSize,
              !.phase = IF teamStats.i + batchSize < Len(teamStats.teamNumbers)
                        THEN "awaiting" ELSE "returned"]
    /\ UNCHANGED <<handlerVars, form>>

TeamsNext ==
    \/ CallGetTeamsYearStats
    \/ \E p \in 1..MaxTeams : p \in DOMAIN teamStats.at /\ TeamFetchSettles(p)
    \/ BatchCompletes

TeamsSpec == TeamsInit /\ [][TeamsNext]_vars

\* ------------------------------------------------------------------------
\* The StockPredictor form (components/StockPredictor 93-217) and its call
\* of predictStock (lib/stockApi 18-39).  null is Null, a message or a prediction v is
\* Some(v); `requests` counts the calls of predictStock that have not settled.
\* ------------------------------------------------------------------------
MARKETS == {"NASDAQ", "NYSE", "TSX"}

TypedTickers == {<<>>, <<" ">>, <<"r", "y">>}

PickedDates == {NoDate, Day(Today - 1), Day(Today), Day(Today + 1)}

\* The time at which the form is used: during the day Today.
FormClock == Today * TicksPerDay + 1

\* What a call of predictStock settles to: the body of a 200 response; the
\* error of a response that is not ok, with its message or without one; the
\* error of a fetch that failed.
Replies ==
    {[ok |-> TRUE, data |-> [predicted_price |-> 2 * Scale]],
     [ok |-> FALSE, message |-> "Insufficient historical data"],
     [ok |-> FALSE, message |-> "Failed to get prediction"],
     [ok |-> FALSE, message |-> ""]}

FormInit ==
    /\ HandlerAtRest
    /\ teamStats = NotCalled
    /\ form = [mounted    |-> TRUE,
               ticker     |-> <<>>,
               market     |-> "NASDAQ",
               targetDate |-> NoDate,
               loading    |-> FALSE,
               error      |-> Null,
               result     |-> Null,
               requests   |-> 0]

\* onChange={(e) => setTicker(e.target.value.toUpperCase())}
SetTicker(typed) ==
    /\ form' = [form EXCEPT !.ticker = toUpperCase(typed)]
    /\ UNCHANGED <<handlerVars, teamStats>>

SetMarket(picked) ==
    /\ form' = [form EXCEPT !.market = picked]
    /\ UNCHANGED <<handlerVars, teamStats>>

SetTargetDate(picked) ==
    /\ form' = [form EXCEPT !.targetDate = picked]
    /\ UNCHANGED <<handlerVars, teamStats>>

\* target <= today, both as times
NotAfterNow(targetDate) == TargetTime(targetDate)[2] <= FormClock

\* A click on the Predict button, which is disabled while loading.
handlePredict ==
    /\ ~form.loading
    /\ form' =
          IF trim(form.ticker) = <<>>
          THEN [form EXCEPT !.error = Some("Please enter a ticker symbol")]
          ELSE IF form.targetDate = NoDate
          THEN [form EXCEPT !.error = Some("Please select a target date")]
          ELSE IF NotAfterNow(form.targetDate)
          THEN [form EXCEPT !.error = Some("Target date must be in the future")]
          ELSE [form EXCEPT !.loading = TRUE, !.error = Null, !.result = Null,
                            !.requests = form.requests + 1]
    /\ UNCHANGED <<handlerVars, teamStats>>

\* err.message || 'Failed to generate prediction'
MessageOf(reply) ==
    IF reply.message = "" THEN "Failed to generate prediction" ELSE reply.message

\* The awaited predictStock settles: try / catch / finally.
RequestCompletes(reply) ==
    /\ form.requests > 0
    /\ form' =
          IF reply.ok
          THEN [form EXCEPT !.result = Some(reply.data), !.loading = FALSE,
                            !.requests = form.requests - 1]
          ELSE [form EXCEPT !.error = Some(MessageOf(reply)), !.loading = FALSE,
                            !.requests = form.requests - 1]
    /\ UNCHANGED <<handlerVars, teamStats>>

FormNext ==
    \/ \E typed \in TypedTickers : SetTicker(typed)
    \/ \E picked \in MARKETS : SetMarket(picked)
    \/ \E picked \in PickedDates : SetTargetDate(picked)
    \/ handlePredict
    \/ \E reply \in Replies : RequestCompletes(reply)

FormSpec == FormInit /\ [][FormNext]_vars

\* ------------------------------------------------------------------------
\* Properties
\* ------------------------------------------------------------------------
\* The bar a row was built from: the loop starts at bar FirstRowIndex.
RowDate(k) == stockData[FirstRowIndex + k].date

\* The observations of map dated on or before day d, and the value of the
\* latest of them (Null if there is none).
Visible(map, d) == {k \in 1..Len(map) : map[k].date <= d}

LatestVisible(map, d) ==
    CHOOSE k \in Visible(map, d) : \A l \in Visible(map, d) : map[l].date <= map[k].date

AsOf(map, d) ==
    IF Visible(map, d) = {} THEN Null ELSE map[LatestVisible(map, d)].value

AsOfJoined(map, d, carried) ==
    /\ Truthy(AsOf(map, d)) => carried = AsOf(map, d)[2]
    /\ \A k \in 1..Len(map) : map[k].date > d => Num(carried) # map[k].value

\* C1: every row's fed_funds and cpi, where the series has a usable value as
\* of the row's date d, is the value of the observation with the greatest
\* date <= d, and no row carries the value of an observation dated after d,
\* whatever the order in which the observations are stored.
C1_AsOfJoin ==
    \A k \in DOMAIN processedData :
        /\ AsOfJoined(macroData.fedFunds, RowDate(k), processedData[k].fed_funds)
        /\ AsOfJoined(macroData.cpi, RowDate(k), processedData[k].cpi)

OutOfOrder(map) == \E i, j \in 1..Len(map) : i < j /\ map[i].date > map[j].date

\* Rows have been built from a map stored out of date order that holds an
\* observation dated after the last bar; one row carries an observation
\* that is followed by a later one it must not see.
C1_Witness ==
    /\ pc = "Training"
    /\ OutOfOrder(macroData.fedFunds)
    /\ \E o \in 1..Len(macroData.fedFunds) :
         macroData.fedFunds[o].date > Latest(stockData).date
    /\ \E k \in DOMAIN processedData :
         /\ Truthy(AsOf(macroData.fedFunds, RowDate(k)))
         /\ processedData[k].fed_funds = AsOf(macroData.fedFunds, RowDate(k))[2]
         /\ \E o \in 1..Len(macroData.fedFunds) :
              /\ macroData.fedFunds[o].date > RowDate(k)
              /\ macroData.fedFunds[o].date <= Latest(stockData).date

\* The value carried is that of an observation of map dated on or before d.
Observed(map, d, carried) == \E k \in Visible(map, d) : map[k].value = Num(carried)

\* C2: every row emitted carries, for both macro fields, the value of an
\* actual observation dated on or before the row's day: a day without one is
\* left out, and no constant is substituted.
C2_StrictDrop ==
    \A k \in DOMAIN processedData :
        /\ Observed(macroData.fedFunds, RowDate(k), processedData[k].fed_funds)
        /\ Observed(macroData.cpi, RowDate(k), processedData[k].cpi)

\* C3: with both macro series empty and at least MinBars bars, the request
\* leaves Aligning for Failed, with the insufficient-data error of the
\* alignment, and for no other state.
C3_EmptyMacroFails ==
    (/\ macroData = NoMacro
     /\ Length(stockData) >= MinBars
     /\ pc # "Aligning")
    => /\ pc = "Failed"
       /\ response = [status |-> 400,
                      error  |-> "Insufficient data for prediction horizon"]

Ordered(lower, value, upper) == lower <= value /\ value <= upper

\* C4: once predicted, the prediction lies in the band; so do the figures of
\* every success response and of every row of the prediction log.
C4_PredictionWithinBand ==
    /\ pc \in {"Persisting", "Done"} => Ordered(bounds.lower, prediction, bounds.upper)
    /\ pc = "Done" =>
          Ordered(response.body.lower_bound, response.body.predicted_price,
                  response.body.upper_bound)
    /\ \A k \in 1..Len(log) :
          Ordered(log[k].lower_bound, log[k].predicted_price, log[k].upper_bound)

\* A success whose raw prediction lay above the band, logged.
C4_Witness ==
    /\ pc = "Done"
    /\ rawPrediction > bounds.upper
    /\ prediction = bounds.upper
    /\ Len(log) = 1

\* The closes rise by the same positive step from each bar to the next.
LinearUptrend(bars) ==
    /\ Length(bars) >= MinBars
    /\ bars[1].close > bars[0].close
    /\ \A i \in DOMAIN bars \ {0} :
          bars[i].close - bars[i - 1].close = bars[1].close - bars[0].close

\* Both series have an observation as of the first bar, and every one of
\* their values is a number.
Covers(map) ==
    /\ Visible(map, stockData[0].date) # {}
    /\ \A k \in 1..Len(map) : Truthy(map[k].value)

MacroAvailable == Covers(macroData.fedFunds) /\ Covers(macroData.cpi)

NearOne(x) == 10 * x >= 9 * Scale

\* C5: a success for a linear uptrend with horizon 10 and macro data
\* available predicts a price above the current one, with r_squared and
\* hit_rate close to 1 (at least 0.9).
C5_UptrendIsLearned ==
    (/\ pc = "Done"
     /\ LinearUptrend(stockData)
     /\ daysAhead = Num(10)
     /\ MacroAvailable)
    => /\ response.body.predicted_price > response.body.current_price
       /\ IsNum(response.body.r_squared)
       /\ NearOne(response.body.r_squared[2])
       /\ NearOne(response.body.hit_rate)

InUnitInterval(x) == IsNum(x) /\ 0 <= x[2] /\ x[2] <= Scale

\* C6: r_squared, once computed and in every success response, is a number
\* in [0, 1].
C6_RSquaredInRange ==
    /\ pc \in {"Persisting", "Done"} => InUnitInterval(rSquared.value)
    /\ pc = "Done" => InUnitInterval(response.body.r_squared)

\* A success whose training targets are all equal: the total sum of squares
\* is 0 and the residual sum of squares exceeds it.
C6_Witness ==
    /\ pc = "Done"
    /\ rSquared.ssTot = 0
    /\ rSquared.ssRes > rSquared.ssTot
    /\ response.body.r_squared = Num(0)

\* C7: feature_importance of a success response has NumFeatures entries,
\* each a number >= 0, and they sum to 100.
C7_ImportanceSumsTo100 ==
    pc = "Done" =>
        /\ Len(response.body.feature_importance) = NumFeatures
        /\ \A j \in 1..NumFeatures :
              /\ IsNum(response.body.feature_importance[j])
              /\ response.body.feature_importance[j][2] >= 0
        /\ SumRange([j \in 1..NumFeatures |-> response.body.feature_importance[j][2]],
                    1, NumFeatures) = 100 * Scale

\* The examples whose predicted and actual directions are equal and not 0.
StrictHits ==
    {i \in DOMAIN X :
        /\ Sign(predict(coefficients, norm.normalized[i]) - X[i][1])
              = Sign(y[i][1] - X[i][1])
        /\ Sign(y[i][1] - X[i][1]) # 0}

C9_MissingFieldsRejected ==
    (req.ticker = <<>> \/ req.market = "" \/ req.target_date = NoDate)
    /\ pc # "Validating"
    => /\ pc = "Failed"
       /\ response = [status |-> 400,
                      error  |-> "Missing required fields: ticker, market, target_date"]
       /\ stockFetch = "idle"
       /\ macroFetch = "idle"
       /\ log = <<>>

\* A request with ticker and target_date but an empty market, rejected.
C9_Witness ==
    /\ pc = "Failed"
    /\ req.ticker # <<>>
    /\ req.market = ""
    /\ req.target_date # NoDate
    /\ response.status = 400

\* The server's calendar day when the request arrives.
RequestDay == now \div TicksPerDay

OnOrBeforeRequestDay(target_date) ==
    target_date[1] = "date" /\ target_date[2] <= RequestDay

\* C10: a complete request whose target_date is the request day or an
\* earlier day, once validated, is Failed with the target-date error and no
\* fetch has been issued; days_ahead of a success response is a number > 0.
C10_PastTargetRejected ==
    /\ (/\ req.ticker # <<>>
        /\ req.market # ""
        /\ OnOrBeforeRequestDay(req.target_date)
        /\ pc # "Validating")
       => /\ pc = "Failed"
          /\ response = [status |-> 400, error |-> "Target date must be in the future"]
          /\ stockFetch = "idle"
          /\ macroFetch = "idle"
    /\ pc = "Done" =>
          /\ IsNum(response.body.days_ahead)
          /\ response.body.days_ahead[2] > 0

\* A request for the request day itself, arriving after midnight, rejected.
C10_Witness ==
    /\ pc = "Failed"
    /\ req.target_date = Day(Today)
    /\ now > Today * TicksPerDay
    /\ daysAhead = Num(0)
    /\ response.status = 400

\* The messages of the two validation errors (index.ts 239, 248).
ValidationMessages ==
    {"Missing required fields: ticker, market, target_date",
     "Target date must be in the future"}

\* The server has no key for the price provider (index.ts 255-257).
Misconfigured ==
    pc = "Failed" /\ response.error = "POLYGON_API_KEY not configured"

\* C11: on a server that has its provider key, a request with ticker and
\* market whose target_date is no date, once validated, is Failed with a
\* validation message and status 400, and no fetch has been issued (so it is
\* never FetchingData, Aligning or Training).
C11_InvalidDateRejected ==
    (/\ req.ticker # <<>>
     /\ req.market # ""
     /\ req.target_date = BadDate
     /\ pc # "Validating"
     /\ ~Misconfigured)
    => /\ pc = "Failed"
       /\ response.status = 400
       /\ response.error \in ValidationMessages
       /\ stockFetch = "idle"
       /\ macroFetch = "idle"

\* Nothing has been computed from the bars, and nothing logged.
NothingComputed ==
    /\ processedData = EmptyArray
    /\ X = EmptyArray
    /\ y = EmptyArray
    /\ norm = NoNorm
    /\ coefficients = <<>>
    /\ rSquared = NoDiagnostics
    /\ log = <<>>

FailedForTooFewBars ==
    pc = "Failed" /\ response = [status |-> 400, error |-> "Insufficient historical data"]

\* C12: once the bars are in, fewer than MinBars of them leave the request
\* Failed with the insufficient-historical-data error and nothing computed
\* or logged; with MinBars or more the request is past FetchingData and has
\* not failed with that error.
C12_BarCountGate ==
    stockData # EmptyArray =>
        IF Length(stockData) < MinBars
        THEN FailedForTooFewBars /\ NothingComputed
        ELSE ~FailedForTooFewBars /\ pc \notin {"Validating", "FetchingData"}

\* One bar short of MinBars: rejected.
C12_Witness ==
    /\ Length(stockData) = MinBars - 1
    /\ FailedForTooFewBars

FailedForTooFewRows ==
    /\ pc = "Failed"
    /\ response = [status |-> 400, error |-> "Insufficient data for prediction horizon"]
    /\ response.error # "Insufficient historical data"
    /\ X = EmptyArray
    /\ coefficients = <<>>

\* C13: once the rows are built, fewer than days_ahead + MinTrainingRows of
\* them leave the request Failed, untrained, with an error of its own; a
\* request in Training has at least MinTrainingRows training examples ahead
\* of it, and one past Training has trained on that many.
C13_HorizonGate ==
    /\ (/\ processedData # EmptyArray
        /\ IsNum(daysAhead)
        /\ Length(processedData) < daysAhead[2] + MinTrainingRows)
       => FailedForTooFewRows
    /\ pc = "Training" => TrainingCount(processedData, daysAhead) >= MinTrainingRows
    /\ pc \in {"Predicting", "Persisting", "Done"} => Length(X) >= MinTrainingRows

\* Predict has run: the hit-rate loop has counted its examples.
PredictionComputed == hitRate.totalSamples > 0

\* C14: once the prediction is computed, whatever the persistence step does,
\* the request ends Done with status 200 and the computed result, never Failed.
C14_PersistenceNeverFails ==
    (PredictionComputed /\ pc # "Persisting")
    => /\ pc = "Done"
       /\ response = [status |-> 200, body |-> SuccessBody]

\* C15: the prediction log holds at most one row of the request; a row is
\* there only once the request is Done, and it is the complete record of the
\* computed prediction; a Failed request has inserted nothing.
C15_NoPartialState ==
    /\ Len(log) <= 1
    /\ log # <<>> => pc = "Done" /\ PredictionComputed /\ log[1] = LogRecord
    /\ pc = "Failed" => log = <<>>

\* A success whose record was inserted.
C15_Witness ==
    /\ pc = "Done"
    /\ Len(log) = 1
    /\ log[1].predicted_price = prediction
    /\ log[1].input_features.training_samples = Length(X)

\* The states of a request, in the order of the handler.
Stages ==
    <<"Validating", "FetchingData", "Aligning", "Training", "Predicting", "Persisting",
      "Done">>

Terminal == {"Done", "Failed"}

StageOf(state) == CHOOSE k \in DOMAIN Stages : Stages[k] = state

\* A change of state goes to the next stage or to Failed.
OrderedStep ==
    pc' # pc => /\ pc \notin Terminal
                /\ pc' = "Failed" \/ StageOf(pc') = StageOf(pc) + 1

\* Once the response is returned, neither it nor the log changes.
TerminalIsFinal == pc \in Terminal => pc' = pc /\ response' = response /\ log' = log

\* No response before the end; the success body at Done; at Failed a body
\* with the error message and nothing else.
OneResponse ==
    /\ pc \notin Terminal => response = [status |-> 0]
    /\ pc = "Done" => response = [status |-> 200, body |-> SuccessBody]
    /\ pc = "Failed" => response.status = 400 /\ DOMAIN response = {"status", "error"}

\* A request that has not ended has a step to take: while it validates,
\* while it awaits Promise.all (a fetch is still to settle, or the join can
\* be taken) and while it persists.  Aligning, Training and Predicting are
\* straight-line code that runs on to the next stage or throws.
NeverStalled == pc \in {"Validating", "FetchingData", "Persisting"} => ENABLED Next

\* The request can still fail: at once while validating, and while the
\* price fetch can reject or has rejected; at the last stage when the
\* database client cannot be created, which every earlier stage leads to.
CanStillFail ==
    /\ pc = "Validating" => ENABLED (Validate /\ pc' = "Failed")
    /\ (pc = "FetchingData" /\ stockFetch # "resolved") =>
            ENABLED ((StockFetchSettles /\ stockFetch' = "rejected")
                        \/ (FetchJoin /\ pc' = "Failed"))
    /\ pc = "Persisting" => ENABLED (Persist /\ pc' = "Failed")

\* C16: a request goes through the stages in order, without skipping or
\* revisiting one; it takes finitely many steps and is never stalled
\* before the end; it has no response before the end, the
\* success response at Done and an {error} response without prediction
\* fields at Failed; it can fail at every stage; nothing changes after the
\* end.
C16_StateMachine ==
    /\ []OneResponse
    /\ []NeverStalled
    /\ []CanStillFail
    /\ [][OrderedStep]_vars
    /\ [][TerminalIsFinal]_vars
    /\ <>[][FALSE]_vars

\* A request that went through every stage and failed at the last one.
C16_Witness ==
    /\ pc = "Failed"
    /\ PredictionComputed
    /\ response = [status |-> 400, error |-> "supabaseUrl is required."]

\* What the upstream providers did wrong, if anything: the price provider
\* was unreachable, answered with an error status or sent no results; the
\* macro provider was unreachable or sent a payload without observations.
PriceProviderFailed == stockResult.error # ""

MacroProviderFailed == macroReply \in {"unreachable", "malformed"}

UpstreamDataErrors ==
    {"fetch failed", "Polygon error: NOT_FOUND", "No data returned from Polygon"}

\* C17: when a provider is unreachable or its payload malformed, the
\* request never enters Training (nor any later stage), and it ends Failed
\* with an upstream-data error.
C17_UpstreamFailureFails ==
    (PriceProviderFailed \/ MacroProviderFailed) =>
        /\ pc \notin {"Training", "Predicting", "Persisting", "Done"}
        /\ pc \in Terminal => pc = "Failed" /\ response.error \in UpstreamDataErrors

Settled == {"resolved", "rejected"}

\* The two fetches are started in the same step, before the await.
StartedTogether == (stockFetch = "idle") <=> (macroFetch = "idle")

\* Alignment has begun: the request is past FetchingData, or has rows.
AlignmentBegun ==
    \/ pc \in {"Aligning", "Training", "Predicting", "Persisting", "Done"}
    \/ stockData # EmptyArray /\ ~TooFewBars(stockData)
    \/ processedData # EmptyArray

\* A rejected price fetch: the request awaits or has failed with the
\* fetch's error, and nothing was aligned.
PriceFailureFails ==
    stockFetch = "rejected" =>
        /\ pc \in {"FetchingData", "Failed"}
        /\ pc = "Failed" => response = [status |-> 400, error |-> stockResult.error]
        /\ stockData = EmptyArray /\ processedData = EmptyArray

\* After a rejected price fetch the handler's only step is to Failed.
FailsOnRejection == (stockFetch = "rejected" /\ pc' # pc) => pc' = "Failed"

\* A fetch is started once and settles once: its outcome never changes.
NoRetry ==
    /\ stockFetch \in Settled => stockFetch' = stockFetch /\ stockResult' = stockResult
    /\ macroFetch \in Settled => macroFetch' = macroFetch /\ macroResult' = macroResult
    /\ stockFetch = "pending" => stockFetch' # "idle"
    /\ macroFetch = "pending" => macroFetch' # "idle"

\* C18: the two fetches are started together; under every interleaving of
\* their completions alignment begins only after both have resolved; a
\* rejected price fetch sends the request to Failed without aligning,
\* whether the macro fetch has settled or not; no fetch is retried.
C18_FetchJoin ==
    /\ []StartedTogether
    /\ [](AlignmentBegun => stockFetch = "resolved" /\ macroFetch = "resolved")
    /\ []PriceFailureFails
    /\ [][FailsOnRejection]_vars
    /\ [][NoRetry]_vars

\* The price fetch rejected first and the request failed while the macro
\* fetch was still in flight.
C18_Witness ==
    /\ pc = "Failed"
    /\ stockFetch = "rejected"
    /\ macroFetch = "pending"
    /\ response.error = stockResult.error

\* The handler has formatted the request's ticker.
Formatted == pc # "Validating" /\ ~MissingFields(req)

IsLowerCase(c) == \E n \in 1..26 : LowerCase[n] = c

\* No lower-case letter, and no white space at either end.
UpperCasedAndTrimmed(str) ==
    /\ \A k \in 1..Len(str) : ~IsLowerCase(str[k])
    /\ str # <<>> => str[1] # " " /\ str[Len(str)] # " "

\* str without its last n characters.
DropLast(str, n) == SubSeq(str, 1, Len(str) - n)

\* The ticker as typed, letter case and outer white space aside.
Typed == trim(toUpperCase(req.ticker))

\* The suffix twice at the end.
DoubledSuffix(str) == endsWith(str, DotTO \o DotTO)

\* What C19 says of the suffix, of idempotence and of the two copies.
SuffixRule ==
    /\ UpperCasedAndTrimmed(formattedTicker)
    /\ req.market # "TSX" => formattedTicker = Typed
    /\ req.market = "TSX" =>
          /\ endsWith(formattedTicker, DotTO)
          /\ IF endsWith(Typed, DotTO) THEN formattedTicker = Typed
             ELSE DropLast(formattedTicker, Len(DotTO)) = Typed
    /\ formatTicker(formattedTicker, req.market) = formattedTicker
    /\ formatTickerClient(req.ticker, req.market) = formattedTicker
    /\ formatTickerClient(formattedTicker, req.market) = formattedTicker

\* C19 as stated: formatTicker upper-cases and trims, appends .TO for TSX
\* only if it is not there, is idempotent, leaves other markets' tickers
\* without a suffix added, agrees with the client's copy, and its result
\* never ends with a doubled suffix.
C19_FormatTicker == Formatted => SuffixRule /\ ~DoubledSuffix(formattedTicker)

\* C19, amended: the same, except that a doubled suffix is never added: the
\* result ends with one only if the ticker was typed with it.
C19_FormatTickerAmended ==
    Formatted => SuffixRule /\ (DoubledSuffix(formattedTicker) => DoubledSuffix(Typed))

\* A Toronto ticker typed in mixed case with its suffix and outer spaces:
\* nothing is appended.
C19_Witness ==
    /\ Formatted
    /\ req.market = "TSX"
    /\ req.ticker = <<" ", "t", ".", "t", "O", " ">>
    /\ formattedTicker = <<"T", ".", "T", "O">>

\* What the running request computes from its own request body, clock and
\* fetched data when it is served alone: every variable of the handler,
\* stage by stage, up to the prediction.
OwnInputs ==
    Formatted => /\ formattedTicker = formatTicker(req.ticker, req.market)
                 /\ daysAhead = DaysAhead(req.target_date, now)

OwnModel ==
    /\ stockData = stockResult.bars
    /\ macroData = macroResult
    /\ processedData = BuildProcessedData(stockData, macroData)
    /\ X = TrainingX(processedData, daysAhead)
    /\ y = TrainingY(processedData, daysAhead)
    /\ norm = normalizeData(X)
    /\ coefficients \in RidgeCandidates(norm.normalized, y)

OwnPrediction ==
    /\ rawPrediction =
          predict(coefficients, Standardize(Features(Latest(processedData)),
                                            norm.means, norm.stds))
    /\ bounds = calculateBounds(Latest(processedData).close,
                                Latest(processedData).volatility, daysAhead[2])
    /\ prediction = Clamp(rawPrediction, bounds.lower, bounds.upper)
    /\ featureImportance = FeatureImportance(coefficients)
    /\ rSquared = RSquared(coefficients, norm.normalized, y)
    /\ hitRate = HitRate(coefficients, norm.normalized, y, X)

\* The table holds at most one row for a ticker, and the running request's
\* row, there only once it is Done, is its own record.
OwnRecord ==
    /\ \A j, k \in 1..Len(log) : log[j].ticker = log[k].ticker => j = k
    /\ \A k \in 1..Len(log) :
          log[k].ticker = formattedTicker => pc = "Done" /\ log[k] = LogRecord

\* C20: whichever request is running, and however the two requests' awaits
\* interleave, its variables are those it computes from its own inputs (the
\* standardization parameters fitted on its own training matrix, the
\* weights fitted on its own standardized matrix), its response is the
\* success body of its own prediction, and its row of the table is its own
\* record.
C20_RequestsIsolated ==
    /\ OwnInputs
    /\ pc \in {"Persisting", "Done"} => OwnModel /\ OwnPrediction
    /\ pc = "Done" => response = [status |-> 200, body |-> SuccessBody]
    /\ OwnRecord

\* Both requests are Done and both rows are in the table; the request that
\* arrived second inserted its row first.
C20_Witness ==
    /\ pc = "Done"
    /\ req = SecondRequest
    /\ parked.pc = "Done"
    /\ parked.req = FirstRequest
    /\ Len(log) = 2
    /\ log[1] = LogRecord
    /\ log[2].ticker = parked.formattedTicker

\* x, a number with `one` units to 1, has at most the decimals of 1 / perUnit.
HasDecimals(x, perUnit, one) == x % (one \div perUnit) = 0

\* C21: in a success response current_price, predicted_price, lower_bound
\* and upper_bound have at most 2 decimals, r_squared and hit_rate at most 3
\* and volatility at most 4.
C21_ResponseRounded ==
    pc = "Done" =>
        /\ HasDecimals(response.body.current_price, 100, Scale)
        /\ HasDecimals(response.body.predicted_price, 100, Scale)
        /\ HasDecimals(response.body.lower_bound, 100, Scale)
        /\ HasDecimals(response.body.upper_bound, 100, Scale)
        /\ IsNum(response.body.r_squared)
        /\ HasDecimals(response.body.r_squared[2], 1000, Scale)
        /\ HasDecimals(response.body.hit_rate, 1000, Scale)
        /\ HasDecimals(response.body.volatility, 10000, LogOne)

\* The fields of a row in the order of the weights (index.ts 329-338 for a
\* training row, 353-362 for the latest row).
FeatureOrder ==
    <<"close", "sma_20", "volatility", "log_return_5d", "log_return_10d",
      "volume_z_score_60d", "fed_funds", "cpi">>

InOrder(vector, row) ==
    /\ Len(vector) = NumFeatures
    /\ \A j \in 1..NumFeatures : vector[j] = row[FeatureOrder[j]]

\* The population standard deviation of column j of the training matrix.
FittedDeviation(j) == StdAbout(Column(X, j), 0, Length(X) - 1, norm.means[j])

\* Entry j of the latest row, standardized with the fitted parameters.
InferenceAt(j) ==
    FDiv(Latest(processedData)[FeatureOrder[j]] - norm.means[j], norm.stds[j])

InferenceRow == [j \in 1..NumFeatures |-> InferenceAt(j)]

\* C22: once predicted, the means and scales are those fitted on the
\* request's training matrix, a scale being 1 where the fitted deviation is
\* 0; the raw prediction is the weights applied to the latest row
\* standardized with them; training rows, latest row and weights have the
\* same NumFeatures features in the same order.
C22_InferenceUsesFittedScaler ==
    pc \in {"Persisting", "Done"} =>
        /\ \A j \in 1..NumFeatures :
              /\ norm.means[j] = Mean(X, j)
              /\ norm.stds[j] = (IF FittedDeviation(j) = 0 THEN Scale ELSE FittedDeviation(j))
        /\ rawPrediction = Dot(InferenceRow, coefficients)
        /\ Len(coefficients) = NumFeatures
        /\ \A i \in DOMAIN X : InOrder(X[i], processedData[i])
        /\ InOrder(Features(Latest(processedData)), Latest(processedData))

\* A prediction from weights on the close, for a latest row whose close is
\* not the training mean: re-fitting on that row would have standardized
\* it to 0 and predicted 0.
C22_Witness ==
    /\ pc = "Persisting"
    /\ coefficients[1] # 0
    /\ InferenceAt(1) # 0
    /\ rawPrediction # 0
    /\ \E j \in 1..NumFeatures : FittedDeviation(j) = 0 /\ norm.stds[j] = Scale

ClosesOf(bars) == [i \in DOMAIN bars |-> bars[i].close]

VolumesOf(bars) == [i \in DOMAIN bars |-> bars[i].volume]

\* Bar i has a value for each of the five indicators.
AllDefined(bars, i) ==
    /\ calculateSMA(ClosesOf(bars), SmaPeriod)[i] # Null
    /\ calculateVolatility(ClosesOf(bars), VolPeriod)[i] # Null
    /\ calculateLogReturn(ClosesOf(bars), ShortMomentum)[i] # Null
    /\ calculateLogReturn(ClosesOf(bars), LongMomentum)[i] # Null
    /\ calculateRollingZScore(VolumesOf(bars), ZScorePeriod)[i] # Null

\* The indexes at which each lookback window is first satisfied.
DefinedFrom(bars, i) ==
    /\ (calculateSMA(ClosesOf(bars), SmaPeriod)[i] # Null) <=> i >= SmaPeriod - 1
    /\ (calculateVolatility(ClosesOf(bars), VolPeriod)[i] # Null) <=> i >= VolPeriod
    /\ (calculateLogReturn(ClosesOf(bars), ShortMomentum)[i] # Null) <=> i >= ShortMomentum
    /\ (calculateLogReturn(ClosesOf(bars), LongMomentum)[i] # Null) <=> i >= LongMomentum
    /\ (calculateRollingZScore(VolumesOf(bars), ZScorePeriod)[i] # Null)
          <=> i >= ZScorePeriod - 1

DefinedDays(bars) == {i \in DOMAIN bars : AllDefined(bars, i)}

\* The rows are those of the bars from index `first` on, one each, in the
\* order of the bars, whose dates increase strictly.
RowsAreBarsFrom(first) ==
    /\ Length(processedData) = Length(stockData) - first
    /\ \A k \in DOMAIN processedData :
          /\ processedData[k].close = stockData[first + k].close
          /\ k > 0 => stockData[first + k].date > stockData[first + k - 1].date

Least(days) == CHOOSE i \in days : \A j \in days : i <= j

FirstDefinedDay(bars) == Least(DefinedDays(bars))

\* C23: with macro values resolvable for every day, the rows aligned are
\* one for each bar at which all five indicators are defined (from index 19,
\* 20, 5, 10 and 59), the first for the first such bar, in strictly
\* increasing date order.
C23_OneRowPerDefinedDay ==
    (pc = "Training" /\ MacroAvailable) =>
        /\ \A i \in DOMAIN stockData : DefinedFrom(stockData, i)
        /\ DefinedDays(stockData) = {i \in DOMAIN stockData : i >= FirstDefinedDay(stockData)}
        /\ RowsAreBarsFrom(FirstDefinedDay(stockData))

\* What the loop does: one row for each bar from index FirstRowIndex on,
\* the bar before it being left out although its indicators are defined.
RowsFromSixty ==
    (pc = "Training" /\ MacroAvailable) =>
        /\ \A i \in DOMAIN stockData : DefinedFrom(stockData, i)
        /\ FirstDefinedDay(stockData) = FirstRowIndex - 1
        /\ RowsAreBarsFrom(FirstRowIndex)

\* The row indexes t with t + horizon inside the aligned history.
Trainable(horizon) ==
    {t \in DOMAIN processedData : t + horizon \in DOMAIN processedData}

\* C24: once trained for a horizon, the examples are one for each aligned
\* row t with t + horizon inside the aligned history and no other, the label
\* of example t being the close of row t + horizon; training_samples is the
\* number of rows less the horizon; the latest row is no training row.
C24_TrainingSet ==
    pc \in {"Predicting", "Persisting", "Done"} =>
        /\ IsNum(daysAhead)
        /\ DOMAIN X = Trainable(daysAhead[2])
        /\ DOMAIN y = Trainable(daysAhead[2])
        /\ \A t \in Trainable(daysAhead[2]) :
              /\ X[t] = Features(processedData[t])
              /\ y[t] = <<processedData[t + daysAhead[2]].close>>
        /\ Length(processedData) - 1 \notin DOMAIN X
        /\ pc = "Done" =>
              response.body.training_samples = Length(processedData) - daysAhead[2]

\* A success for a horizon of more than one day.
C24_Witness ==
    /\ pc = "Done"
    /\ daysAhead[2] > 1
    /\ response.body.training_samples = Length(processedData) - daysAhead[2]
    /\ Length(X) > MinTrainingRows

\* The label of example t is the close of the bar dated `horizon` calendar
\* days after the bar of row t.
LabelledAfter(t, horizon) == RowDate(t + horizon) = RowDate(t) + horizon

\* C25: once trained, days_ahead is the number of calendar days from the
\* request day to target_date, and the label of every training example is
\* the close at the date that many calendar days after the date of its
\* feature row.
C25_HorizonInCalendarDays ==
    pc \in {"Predicting", "Persisting", "Done"} =>
        /\ daysAhead = Num(req.target_date[2] - RequestDay)
        /\ \A t \in DOMAIN X : LabelledAfter(t, daysAhead[2])

\* The same for bars that have no gap: one bar for every calendar day.
EveryDayTraded ==
    \A i \in DOMAIN stockData \ {0} : stockData[i].date = stockData[i - 1].date + 1

HorizonInCalendarDaysWithoutGaps ==
    pc \in {"Predicting", "Persisting", "Done"} =>
        /\ daysAhead = Num(req.target_date[2] - RequestDay)
        /\ EveryDayTraded => \A t \in DOMAIN X : LabelledAfter(t, daysAhead[2])

IsConstant(values) == \A i \in DOMAIN values : values[i] = values[0]

\* The periods the indicators are tried with: those of the handler, and 1.
Periods == {1, ShortMomentum, LongMomentum, VolPeriod, ZScorePeriod}

\* An indicator that is 0 from index `first` on and missing before it.
ZeroFrom(values, first) == [i \in DOMAIN values |-> IF i < first THEN Null ELSE Some(0)]

\* C26: for a constant positive price series the log return of any period
\* and the volatility are 0 where defined and missing exactly below the
\* period; the rolling z-score of a constant window is 0, its zero standard
\* deviation being replaced by 1.
C26_ConstantSeries ==
    (/\ pc = "Training"
     /\ IsConstant(ClosesOf(stockData))
     /\ stockData[0].close > 0) =>
        /\ \A p \in Periods :
              /\ calculateLogReturn(ClosesOf(stockData), p) = ZeroFrom(stockData, p)
              /\ calculateVolatility(ClosesOf(stockData), p) = ZeroFrom(stockData, p)
              /\ calculateRollingZScore(ClosesOf(stockData), p) = ZeroFrom(stockData, p - 1)
        /\ \A k \in DOMAIN processedData :
              /\ processedData[k].log_return_5d = 0
              /\ processedData[k].log_return_10d = 0
              /\ processedData[k].volatility = 0
              /\ IsConstant(VolumesOf(stockData)) => processedData[k].volume_z_score_60d = 0

\* The rows of a stock with more than MinBars bars, all at one price and
\* one volume, have been aligned.
C26_Witness ==
    /\ pc = "Training"
    /\ Length(stockData) > MinBars
    /\ IsConstant(ClosesOf(stockData))
    /\ IsConstant(VolumesOf(stockData))
    /\ Length(processedData) > 0
    /\ Latest(processedData).volatility = 0
    /\ Latest(processedData).volume_z_score_60d = 0

\* The teams with a statistics request in flight.
InFlight == {p \in DOMAIN teamStats.at : teamStats.at[p] \in 1..Len(Years)}

Requested == {p \in DOMAIN teamStats.at : teamStats.at[p] # 0}

AtMostABatchInFlight == Cardinality(InFlight) <= batchSize

\* Only the teams of the batches up to the one awaited have been requested.
NoLaterBatchRequested ==
    teamStats.phase = "awaiting" => \A p \in Requested : p <= teamStats.i + batchSize

\* The teams for which some year returned data.
WithData ==
    {teamStats.teamNumbers[p] : p \in {q \in DOMAIN teamStats.at : teamStats.dataYear[q] # 0}}

ResultsComplete ==
    teamStats.phase = "returned" =>
        /\ DOMAIN teamStats.results = WithData
        /\ \A p \in DOMAIN teamStats.at :
              teamStats.dataYear[p] # 0 =>
                  teamStats.results[teamStats.teamNumbers[p]] = YearStats(teamStats.dataYear[p])

\* C27: during a call of getTeamsYearStats at most batchSize teams have a
\* statistics request in flight, no team of a later batch is requested
\* before the batch awaited has completed, and the map returned has an
\* entry exactly for the teams for which some year returned data.
C27_BatchesOfTen ==
    teamStats.phase # "none" =>
        /\ AtMostABatchInFlight
        /\ NoLaterBatchRequested
        /\ ResultsComplete

ErrorAndResultExclusive == ~(form.error # Null /\ form.result # Null)

\* At most one call of predictStock has not settled, and the form is
\* loading exactly while one has not.
AtMostOneRequest ==
    /\ form.requests <= 1
    /\ form.loading <=> form.requests = 1

\* C28: in the StockPredictor form the error message and the prediction
\* result are never both set, and at most one prediction request is in
\* flight, loading being true exactly while it is.
C28_FormConsistent ==
    form.mounted => ErrorAndResultExclusive /\ AtMostOneRequest

FormRequestsSerial == form.mounted => AtMostOneRequest

====
